---------------------------- MODULE Spec2Model ----------------------------
(***************************************************************************)
(* A model of qualpy's QualtricsAPI client (src/qualpy/wrapper.py).        *)
(*                                                                         *)
(* The client is single threaded.  Every method is a sequence of blocking  *)
(* HTTP requests against the Qualtrics account; the account and the        *)
(* responses it gives are the environment.  A method that issues a fixed   *)
(* number of requests is one action; the export poller and the two         *)
(* paginators, whose loops are driven by the responses, take one step per  *)
(* request.                                                                *)
(*                                                                         *)
(*   log   the requests issued by the call in progress (or the last call)  *)
(*   ret   how the last call ended (returned value or raised error)        *)
(*   prev  ret and log of the call before the last one                     *)
(***************************************************************************)
EXTENDS Integers, Sequences, FiniteSets, TLC

VARIABLES
    server,     \* the account's mailing lists, in listing order
    mls_set,    \* whether the attribute self.mls exists
    mls,        \* self.mls: the name -> attributes cache
    pc,         \* position of the client
    calls,      \* number of calls started
    log,        \* requests issued by the current call
    ret,        \* outcome of the last completed call
    prev,       \* outcome and requests of the call before it
    table,      \* the contact table given to the last call (import_contacts)
    surveys,    \* the account's surveys, in listing order
    prog_id,    \* _get_surv_data: progress id of the export job
    prog_status,    \* _get_surv_data: last status read
    ready,          \* _get_surv_data: file id seen by the loop (0 is None)
    req_check_resp, \* _get_surv_data: last status response, if any
    resps,          \* responses of the export job to the current call: the
                    \* creation response, then the status responses
    chain,      \* paginators: the pages the account serves, in cursor order
    nextPage,   \* paginators: cursor of the next page (0 is None)
    dfs,        \* paginators: what has been accumulated
    attempt,    \* _get_dist_links: turns of the retry loop made for this round
    script,     \* _get_dist_links: which page fetches the account answers
                \* with a response that lacks a field
    fails       \* paginators: responses that lacked a field, so far

cacheVars == <<server, mls_set, mls>>
exportVars == <<surveys, prog_id, prog_status, ready, req_check_resp, resps>>

pageVars == <<chain, nextPage, dfs, attempt, script, fails>>

vars == <<server, mls_set, mls, pc, calls, log, ret, prev, table, exportVars, pageVars>>

(***************************************************************************)
(* Bounds of the model.                                                    *)
(***************************************************************************)
MaxLists == 3
MaxCalls == 3
MaxHead == 2
MaxPolls == 3
MaxContactPages == 3
MaxLinkPages == 11
MaxDists == 3

Names == {"a", "b"}
Emails == {"x", "y"}

(***************************************************************************)
(* Program constants.                                                      *)
(***************************************************************************)
MaxContacts == 10000
MaxAttempts == 10

(***************************************************************************)
(* Sequence helpers.                                                       *)
(***************************************************************************)
SeqsUpTo(S, n) == UNION {[1..k -> S] : k \in 0..n}

(***************************************************************************)
(* Requests and call outcomes.                                             *)
(***************************************************************************)
Req(m, ep, n) == [m |-> m, ep |-> ep, n |-> n]

\* how many requests of a kind a call has issued
Count(reqs, m, ep) == Cardinality({i \in 1..Len(reqs) : reqs[i].m = m /\ reqs[i].ep = ep})

\* The outcome of a call: what was called, with what, how it ended, and the
\* value returned or the error raised.  TLC compares records field by field
\* in the order the fields are first named in the module: op and kind come
\* before val, so that outcomes whose values are of different sorts are
\* told apart before the values are compared.
NoCall == [op |-> "none", arg |-> "", kind |-> "none", val |-> 0, err |-> ""]

Return(op, arg, val) ==
    [op |-> op, arg |-> arg, kind |-> "return", val |-> val, err |-> ""]

Raise(op, arg, err) ==
    [op |-> op, arg |-> arg, kind |-> "raise", val |-> 0, err |-> err]

Running(op, arg) ==
    [op |-> op, arg |-> arg, kind |-> "running", val |-> 0, err |-> ""]

Ok(val) == [kind |-> "return", val |-> val, err |-> ""]
Err(err) == [kind |-> "raise", val |-> 0, err |-> err]

Finish(op, arg, r) ==
    [op |-> op, arg |-> arg, kind |-> r.kind, val |-> r.val, err |-> r.err]

(***************************************************************************)
(* The account: POST mailinglists appends a list with a fresh id; the      *)
(* listing is returned in account order.                                   *)
(***************************************************************************)
Entry(name, id) == [name |-> name, id |-> id]

AddList(srv, name) == Append(srv, Entry(name, Len(srv) + 1))

InitListings ==
    {[i \in 1..Len(ns) |-> Entry(ns[i], i)] : ns \in SeqsUpTo(Names, 2)}

(***************************************************************************)
(* _list_mailing_lists: the duplicate check and the name -> attributes map *)
(***************************************************************************)
ListingNames(mailing_lists) == {mailing_lists[i].name : i \in 1..Len(mailing_lists)}

\* a check that lets every listing through
HasDuplicatesNever(mailing_lists) == FALSE

HasDuplicates(mailing_lists) ==
    Cardinality(ListingNames(mailing_lists)) # Len(mailing_lists)

\* a mapping that misses the newest entry of the listing
CacheOfStale(mailing_lists) ==
    [n \in {mailing_lists[i].name : i \in 1..(Len(mailing_lists) - 1)} |->
        LET i == CHOOSE i \in 1..(Len(mailing_lists) - 1) : mailing_lists[i].name = n
        IN [id |-> mailing_lists[i].id]]

\* {ml.pop('name'): ml for ml in mailing_lists}: a later entry of the same
\* name would overwrite an earlier one
CacheOf(mailing_lists) ==
    [n \in ListingNames(mailing_lists) |->
        LET i == CHOOSE i \in 1..Len(mailing_lists) :
                    /\ mailing_lists[i].name = n
                    /\ \A j \in (i+1)..Len(mailing_lists) : mailing_lists[j].name # n
        IN [id |-> mailing_lists[i].id]]

list_mailing_lists(mailing_lists) ==
    IF HasDuplicates(mailing_lists)
    THEN Err("ValueError: duplicate names")
    ELSE [kind |-> "return", val |-> CacheOf(mailing_lists), err |-> ""]

(***************************************************************************)
(* _get_mailing_list_attr / get_mailing_list_id: a pure cache lookup.      *)
(***************************************************************************)
\* a lookup that finds no name
ResolvesNever(cache, mlname) == FALSE

Resolves(cache, mlname) == mlname \in DOMAIN cache

get_mailing_list_id(cache, mlname) ==
    IF Resolves(cache, mlname) THEN Ok(cache[mlname].id) ELSE Err("KeyError")

(***************************************************************************)
(* Contact tables.  A table is its first rows' emails (head) followed by   *)
(* bulk further rows whose emails are pairwise distinct and differ from    *)
(* every email of the head.                                                *)
(***************************************************************************)
BulkSizes == {0, MaxContacts - 1, MaxContacts}

Tables == [head : SeqsUpTo(Emails, MaxHead), bulk : BulkSizes]

NoTable == [head |-> <<>>, bulk |-> 0]

DfLen(df) == Len(df.head) + df.bulk

\* the list of contact dicts built by the loop over df.itertuples()
Contacts(df) ==
    [rows |-> [i \in 1..Len(df.head) |-> [email |-> df.head[i]]], bulk |-> df.bulk]

ContactsLen(contacts) == Len(contacts.rows) + contacts.bulk

\* len(set(contact['email'] for contact in contacts))
UniqueEmails(contacts) ==
    Cardinality({contacts.rows[i].email : i \in 1..Len(contacts.rows)}) + contacts.bulk

\* the conversion without its first assert
BatchLimitOff(df) == TRUE

BatchLimit(df) == DfLen(df) <= MaxContacts

\* the conversion without its last assert
EmailsUniqueOff(df) == TRUE

EmailsUnique(df) == UniqueEmails(Contacts(df)) = DfLen(df)

convert_df_to_contacts(df) ==
    IF ~BatchLimit(df)
    THEN Err("AssertionError: maximum contacts to import at once is 10000")
    ELSE IF ~EmailsUnique(df)
    THEN Err("AssertionError")
    ELSE [kind |-> "return", val |-> Contacts(df), err |-> ""]

(***************************************************************************)
(* Surveys and _get_survey_id: the first survey of the listing that has    *)
(* the name.                                                               *)
(***************************************************************************)
SurveyNames == {"s", "t"}

SurveyListings ==
    { <<>>,
      <<Entry("s", 1)>>,
      <<Entry("t", 1), Entry("s", 2)>>,
      <<Entry("s", 1), Entry("s", 2)>> }

\* a lookup that returns None (0) for a name it does not find
get_survey_id_unchecked(listing, suname) ==
    IF \E i \in 1..Len(listing) : listing[i].name = suname
    THEN LET i == CHOOSE i \in 1..Len(listing) : listing[i].name = suname
         IN Ok(listing[i].id)
    ELSE Ok(0)

get_survey_id(listing, suname) ==
    IF \E i \in 1..Len(listing) : listing[i].name = suname
    THEN LET i == CHOOSE i \in 1..Len(listing) :
                    /\ listing[i].name = suname
                    /\ \A j \in 1..(i-1) : listing[j].name # suname
         IN Ok(listing[i].id)
    ELSE Err("ValueError: survey does not exist")

(***************************************************************************)
(* The export job as the client sees it.  A creation response carries a    *)
(* progress id and a status; a status response carries a status and may    *)
(* carry a file id (fileId 0: the key is absent).                          *)
(***************************************************************************)
Statuses == {"inProgress", "complete", "failed"}
ProgIds == {1, 2}
FileIds == {1, 2}

StatusResponses == [bound : {TRUE}, status : Statuses, fileId : {0} \cup FileIds]

Unbound == [bound |-> FALSE, status |-> "", fileId |-> 0]

\* the loop condition of the status loop
\* the condition negated
KeepPollingInverted(status, file) ==
    ~(status # "complete" /\ status # "failed" /\ file = 0)

\* the condition without `ready is None`
KeepPollingIgnoresFile(status, file) == status # "complete" /\ status # "failed"

KeepPolling(status, file) ==
    status # "complete" /\ status # "failed" /\ file = 0

\* ready = resp.get('fileId', ''): an absent key leaves a value that is not None
ReadyAfterDefault(file, resp) == IF resp.fileId # 0 THEN resp.fileId ELSE -1

\* try: ready = resp['fileId'] except KeyError: pass
ReadyAfter(file, resp) == IF resp.fileId # 0 THEN resp.fileId ELSE file

\* a poller that does not look for the failed status
ExportFailedIgnored(status) == FALSE

ExportFailed(status) == status = "failed"

(***************************************************************************)
(* The exported file and its conversion to a table: the first csv line     *)
(* names the columns, the next two rows are Qualtrics headers and are      *)
(* dropped, the column names are lowercased.                               *)
(***************************************************************************)
ExportFile(file_id) ==
    IF file_id = 1
    THEN [columns |-> <<"ResponseId", "Q1">>,
          rows |-> <<"labels", "importids", "R_1", "R_2">>]
    ELSE [columns |-> <<"Finished">>,
          rows |-> <<"labels">>]

Lower(c) ==
    CASE c = "ResponseId" -> "responseid"
      [] c = "Q1" -> "q1"
      [] c = "Finished" -> "finished"
      [] OTHER -> c

ReadExport(content) ==
    [columns |-> [i \in 1..Len(content.columns) |-> Lower(content.columns[i])],
     rows |-> SubSeq(content.rows, 3, Len(content.rows))]

(***************************************************************************)
(* Paginated collections.  A chain is the sequence of pages the account    *)
(* serves; the cursor of page j is j + 1, and None (0) on the last page.   *)
(***************************************************************************)
Cursor(pages, j) == IF j < Len(pages) THEN j + 1 ELSE 0

RECURSIVE Flatten(_)
Flatten(seqs) == IF seqs = <<>> THEN <<>> ELSE Head(seqs) \o Flatten(Tail(seqs))

\* d1 | d2 on dicts: the keys of both, d2's value where both have the key
DictUnion(d1, d2) ==
    [k \in DOMAIN d1 \cup DOMAIN d2 |-> IF k \in DOMAIN d2 THEN d2[k] ELSE d1[k]]

(***************************************************************************)
(* Mailing-list contacts and _parse_distribution_page.                     *)
(***************************************************************************)
Sent == [emailDistributionId |-> "EMD_1", type |-> "Invite", result |-> "Success"]
Bounced == [emailDistributionId |-> "EMD_2", type |-> "Reminder", result |-> "Bounce"]

Person(id, email, history) ==
    [id |-> id, email |-> email, language |-> "en", unsubscribed |-> "false",
     emailHistory |-> history]

ContactPages ==
    { <<>>,
      <<Person("CID_1", "x", <<Sent, Bounced>>)>>,
      <<Person("CID_2", "y", <<>>), Person("CID_3", "x", <<Bounced>>)>> }

ContactChains == UNION {[1..n -> ContactPages] : n \in 1..MaxContactPages}

\* one row per contact: only the first entry of the history is used
PersonRowsFirst(person) ==
    LET p_dict == [contactid |-> person.id,
                   email |-> person.email,
                   language |-> person.language,
                   unsubscribed |-> person.unsubscribed]
    IN [i \in 1..(IF person.emailHistory = <<>> THEN 0 ELSE 1) |->
            DictUnion(p_dict, person.emailHistory[i])]

PersonRows(person) ==
    LET p_dict == [contactid |-> person.id,
                   email |-> person.email,
                   language |-> person.language,
                   unsubscribed |-> person.unsubscribed]
    IN [i \in 1..Len(person.emailHistory) |-> DictUnion(p_dict, person.emailHistory[i])]

parse_distribution_page(elements) ==
    Flatten([i \in 1..Len(elements) |-> PersonRows(elements[i])])

(***************************************************************************)
(* Distribution links.  Page j of a chain holds j % 3 links; the result    *)
(* table has the columns of the elements, lowercased.                      *)
(***************************************************************************)
LinkPage(j) == [i \in 1..(j % 3) |-> [contactId |-> j, link |-> i]]

LinkChain(n) == [j \in 1..n |-> LinkPage(j)]

LinkChains == {LinkChain(n) : n \in 1..MaxLinkPages}

LinkRow(el) == [contactid |-> el.contactId, link |-> el.link]

\* pd.concat(dfs, ignore_index=True) with df.columns.str.lower()
ConcatLinks(frames) ==
    LET rows == Flatten(frames) IN [i \in 1..Len(rows) |-> LinkRow(rows[i])]

\* What a page response may lack: the elements or the next-page cursor.  A
\* script makes the first `fails` fetches of each page first..last lack
\* `kind`; every other fetch is answered in full.
Transient == {"noElements", "noNextPage"}

NoFaults == [first |-> 0, last |-> 0, fails |-> 0, kind |-> "noElements"]

Scripts(pages) ==
    {NoFaults} \cup
    {f \in [first : 1..Len(pages), last : 1..Len(pages),
            fails : 1..MaxAttempts, kind : Transient] : f.first <= f.last}

Fetches(reqs, j) == Cardinality({i \in 1..Len(reqs) : reqs[i] = Req("GET", "links", j)})

\* the answer to a fetch of page j after the requests reqs
Response(faults, reqs, j) ==
    IF faults.first <= j /\ j <= faults.last /\ Fetches(reqs, j) < faults.fails
    THEN faults.kind
    ELSE "ok"

(***************************************************************************)
(* The distributions of a survey and _get_distribution_ids.  An element of *)
(* the listing has an id, a request type, the recipients' sample id (0 is  *)
(* None) and mailing-list id, and a send date; ids and send dates differ   *)
(* from one element to the next.                                           *)
(***************************************************************************)
RequestTypes == {"Invite", "Reminder", "ThankYou"}
SampleIds == {0, 1}
MailingListIds == {1, 2}

Shapes == [requestType : RequestTypes, sampleId : SampleIds, mailingListId : MailingListIds]

Distribution(id, shape) ==
    [id |-> id,
     requestType |-> shape.requestType,
     recipients |-> [sampleId |-> shape.sampleId, mailingListId |-> shape.mailingListId],
     sendDate |-> <<"2021-12", id>>]

DistListings ==
    UNION {{[i \in 1..n |-> Distribution(i, shapes[i])] : shapes \in [1..n -> Shapes]} :
           n \in 0..MaxDists}

\* (resultType == 'Invite') & (sampleId is None)
Considered(result) ==
    result.requestType = "Invite" /\ result.recipients.sampleId = 0

EmptyDict == [k \in {} |-> 0]

\* d[k] = v on a dict
Put(d, k, v) == [x \in DOMAIN d \cup {k} |-> IF x = k THEN v ELSE d[x]]

\* the loop over results, from the dict built so far
RECURSIVE Dists(_, _)
Dists(results, dists) ==
    IF results = <<>>
    THEN dists
    ELSE LET result == Head(results)
             ml_id == result.recipients.mailingListId
         IN Dists(Tail(results),
                  IF Considered(result)
                  THEN Put(dists, ml_id,
                           [dist_id |-> result.id, send_date |-> result.sendDate])
                  ELSE dists)

(***************************************************************************)
(* Initial state: the account holds some mailing lists; no client yet.     *)
(***************************************************************************)
InitCache ==
    /\ server \in InitListings
    /\ mls_set = FALSE
    /\ mls = [n \in {} |-> [id |-> 0]]

InitCommon ==
    /\ calls = 0
    /\ log = <<>>
    /\ ret = NoCall
    /\ prev = [ret |-> NoCall, log |-> <<>>]
    /\ table = NoTable

InitExportVars ==
    /\ surveys \in SurveyListings
    /\ prog_id = 0
    /\ prog_status = "inProgress"
    /\ ready = 0
    /\ req_check_resp = Unbound
    /\ resps = <<>>

\* a client whose construction succeeded
InitConstructed ==
    /\ server \in {l \in InitListings : ~HasDuplicates(l)}
    /\ mls_set = TRUE
    /\ mls = CacheOf(server)
    /\ pc = "idle"

InitPageVars ==
    /\ chain = <<>>
    /\ nextPage = 0
    /\ dfs = <<>>
    /\ attempt = 0
    /\ script = NoFaults
    /\ fails = 0

Init ==
    /\ InitCache
    /\ InitCommon
    /\ pc = "new"
    /\ surveys = <<>>
    /\ prog_id = 0
    /\ prog_status = "inProgress"
    /\ ready = 0
    /\ req_check_resp = Unbound
    /\ resps = <<>>
    /\ InitPageVars

InitExport ==
    /\ InitConstructed
    /\ InitCommon
    /\ InitExportVars
    /\ InitPageVars

InitPages ==
    /\ server = <<Entry("a", 1), Entry("b", 2)>>
    /\ mls_set = TRUE
    /\ mls = CacheOf(server)
    /\ pc = "idle"
    /\ InitCommon
    /\ surveys \in {<<>>, <<Entry("s", 1)>>}
    /\ prog_id = 0
    /\ prog_status = "inProgress"
    /\ ready = 0
    /\ req_check_resp = Unbound
    /\ resps = <<>>
    /\ InitPageVars

\* bookkeeping shared by every action that starts a call
StartCall(df) ==
    /\ calls < MaxCalls
    /\ table' = df
    /\ calls' = calls + 1
    /\ prev' = [ret |-> ret, log |-> log]

(***************************************************************************)
(* __post_init__: the cache is loaded with one listing request.            *)
(***************************************************************************)
PostInit ==
    /\ pc = "new"
    /\ StartCall(NoTable)
    /\ LET r == list_mailing_lists(server)
       IN /\ log' = <<Req("GET", "mailinglists", 0)>>
          /\ UNCHANGED <<exportVars, pageVars>>
          /\ IF r.kind = "raise"
             THEN /\ ret' = Raise("__post_init__", "", r.err)
                  /\ pc' = "new"
                  /\ UNCHANGED <<mls, mls_set>>
             ELSE /\ ret' = Return("__post_init__", "", 0)
                  /\ pc' = "idle"
                  /\ mls' = r.val
                  /\ mls_set' = TRUE
    /\ UNCHANGED server

(***************************************************************************)
(* Another user of the account adds a mailing list.                        *)
(***************************************************************************)
ExternalAdd(name) ==
    /\ pc \in {"new", "idle"}
    /\ Len(server) < MaxLists
    /\ server' = AddList(server, name)
    /\ UNCHANGED <<mls_set, mls, pc, calls, log, ret, prev, table, exportVars, pageVars>>

(***************************************************************************)
(* create_mailing_list(name).  The creation response is not inspected, so  *)
(* the account either created the list or rejected the request.            *)
(***************************************************************************)
create_mailing_list(name) ==
    /\ pc = "idle"
    /\ StartCall(NoTable)
    /\ LET first == get_mailing_list_id(mls, name)
       IN IF first.kind = "return"
          THEN /\ ret' = Finish("create_mailing_list", name, first)
               /\ log' = <<>>
               /\ UNCHANGED <<server, mls, mls_set>>
          ELSE \E created \in BOOLEAN :
                 /\ created => Len(server) < MaxLists
                 /\ server' = IF created THEN AddList(server, name) ELSE server
                 /\ log' = <<Req("POST", "mailinglists", 0),
                             Req("GET", "mailinglists", 0)>>
                 /\ LET r == list_mailing_lists(server')
                    IN IF r.kind = "raise"
                       THEN /\ ret' = Finish("create_mailing_list", name, r)
                            /\ UNCHANGED <<mls, mls_set>>
                       ELSE /\ mls' = r.val
                            /\ mls_set' = TRUE
                            /\ ret' = Finish("create_mailing_list", name,
                                             get_mailing_list_id(r.val, name))
    /\ UNCHANGED <<pc, exportVars, pageVars>>

(***************************************************************************)
(* get_mailing_list_id(mlname) called by the user.                         *)
(***************************************************************************)
GetMailingListId(mlname) ==
    /\ pc = "idle"
    /\ StartCall(NoTable)
    /\ ret' = Finish("get_mailing_list_id", mlname, get_mailing_list_id(mls, mlname))
    /\ log' = <<>>
    /\ UNCHANGED <<server, mls, mls_set, pc, exportVars, pageVars>>

(***************************************************************************)
(* import_contacts(mlname, contacts)                                       *)
(***************************************************************************)
import_contacts(mlname, df) ==
    /\ pc = "idle"
    /\ StartCall(df)
    /\ LET mlid == get_mailing_list_id(mls, mlname)
           contacts == convert_df_to_contacts(df)
       IN IF mlid.kind = "raise"
          THEN /\ ret' = Finish("import_contacts", mlname, mlid)
               /\ log' = <<>>
          ELSE IF contacts.kind = "raise"
          THEN /\ ret' = Finish("import_contacts", mlname, contacts)
               /\ log' = <<>>
          ELSE /\ ret' = Return("import_contacts", mlname, mlid.val)
               /\ log' = <<Req("POST", "contactimports", ContactsLen(contacts.val))>>
    /\ UNCHANGED <<server, mls, mls_set, pc, exportVars, pageVars>>

NextCache ==
    \/ PostInit
    \/ \E name \in Names : ExternalAdd(name)
    \/ \E name \in Names : create_mailing_list(name)
    \/ \E name \in Names : GetMailingListId(name)
    \/ \E name \in Names, df \in Tables : import_contacts(name, df)

Next == NextCache

Spec == Init /\ [][Next]_vars

(***************************************************************************)
(* _get_surv_data(surv_name): the export poller.                           *)
(*                                                                         *)
(* ExportStart   lines 180-199: resolve the survey, POST the export job    *)
(* ExportCheck   lines 202-221: one turn of the status loop                *)
(* ExportFinish  lines 223-254: after the loop                             *)
(*                                                                         *)
(* Every URL is built with _get_survey_id, which lists the surveys again.  *)
(***************************************************************************)
ExportStart(surv_name) ==
    /\ pc = "idle"
    /\ calls < MaxCalls
    /\ calls' = calls + 1
    /\ table' = NoTable
    /\ LET suid == get_survey_id(surveys, surv_name)
       IN IF suid.kind = "raise"
          THEN /\ log' = <<Req("GET", "surveys", 0)>>
               /\ ret' = Finish("get_surv_data", surv_name, suid)
               /\ resps' = <<>>
               /\ UNCHANGED <<pc, prog_id, prog_status>>
          ELSE \E id \in ProgIds, status \in Statuses :
                 /\ log' = <<Req("GET", "surveys", 0),
                             Req("POST", "export-responses", suid.val)>>
                 /\ ret' = Running("get_surv_data", surv_name)
                 /\ prog_id' = id
                 /\ prog_status' = status
                 /\ resps' = <<[bound |-> TRUE, status |-> status, fileId |-> 0]>>
                 /\ pc' = "export_loop"
    /\ ready' = 0
    /\ req_check_resp' = Unbound
    /\ UNCHANGED <<cacheVars, prev, surveys, pageVars>>

ExportCheck ==
    /\ pc = "export_loop"
    /\ KeepPolling(prog_status, ready)
    /\ Count(log, "GET", "export-responses") < MaxPolls
    /\ \E resp \in StatusResponses :
         /\ log' = log \o <<Req("GET", "surveys", 0),
                            Req("GET", "export-responses", prog_id)>>
         /\ ready' = ReadyAfter(ready, resp)
         /\ prog_status' = resp.status
         /\ req_check_resp' = resp
         /\ resps' = Append(resps, resp)
    /\ UNCHANGED <<cacheVars, pc, calls, ret, prev, table, surveys, prog_id, pageVars>>

ExportFinish ==
    /\ pc = "export_loop"
    /\ ~KeepPolling(prog_status, ready)
    /\ pc' = "idle"
    /\ IF ExportFailed(prog_status)
       THEN /\ ret' = Raise("get_surv_data", ret.arg, "Exception: export failed")
            /\ log' = log
       ELSE IF ~req_check_resp.bound
       THEN /\ ret' = Raise("get_surv_data", ret.arg, "UnboundLocalError")
            /\ log' = log
       ELSE IF req_check_resp.fileId = 0
       THEN /\ ret' = Raise("get_surv_data", ret.arg, "KeyError")
            /\ log' = log
       ELSE LET file_id == req_check_resp.fileId
            IN /\ log' = log \o <<Req("GET", "surveys", 0),
                                  Req("GET", "file", file_id)>>
               /\ ret' = Return("get_surv_data", ret.arg,
                                ReadExport(ExportFile(file_id)))
    /\ UNCHANGED <<cacheVars, calls, prev, table, exportVars, pageVars>>

NextExport ==
    \/ \E surv_name \in SurveyNames : ExportStart(surv_name)
    \/ ExportCheck
    \/ ExportFinish

SpecExport == InitExport /\ [][NextExport]_vars

\* The client is one thread of blocking calls and every request is answered:
\* a step of the poller that can be taken is taken.  Every such step changes
\* the position of the client or adds to the requests issued.
SpecExportLive ==
    /\ InitExport
    /\ [][NextExport]_vars
    /\ WF_<<pc, log>>(ExportCheck)
    /\ WF_<<pc, log>>(ExportFinish)


(***************************************************************************)
(* _get_distribution(ml_id): the contacts of a mailing list, page by page. *)
(*                                                                         *)
(* DistStart   lines 300-308: the first page                               *)
(* DistNext    lines 309-320: one turn of the while loop                   *)
(* DistFinish  lines 322-325                                               *)
(*                                                                         *)
(* A response that lacks a field raises KeyError out of the call.          *)
(***************************************************************************)
\* A paginator call resets everything it reads, so its behaviour does not
\* depend on the calls before it: one call is followed from a fresh client.
\* dfs = rows in place of dfs.extend(rows)
ExtendReplaces(acc, rows) == rows

\* dfs.extend(rows)
Extend(acc, rows) == acc \o rows

StartPages(op, arg) ==
    /\ pc = "idle"
    /\ calls = 0
    /\ calls' = calls + 1
    /\ table' = NoTable
    /\ ret' = Running(op, arg)
    /\ attempt' = 0
    /\ UNCHANGED <<cacheVars, prev, exportVars>>

DistStart(pages) ==
    /\ StartPages("get_distribution", "")
    /\ chain' = pages
    /\ script' = NoFaults
    /\ log' = <<Req("GET", "contacts", 1)>>
    /\ \E ok \in BOOLEAN :
         IF ok
         THEN /\ nextPage' = Cursor(pages, 1)
              /\ dfs' = Extend(<<>>, parse_distribution_page(pages[1]))
              /\ fails' = 0
              /\ pc' = "dist_loop"
         ELSE /\ nextPage' = 0
              /\ dfs' = <<>>
              /\ fails' = 1
              /\ pc' = "dist_raise"

DistNext ==
    /\ pc = "dist_loop"
    /\ nextPage # 0
    /\ log' = Append(log, Req("GET", "contacts", nextPage))
    /\ \E ok \in BOOLEAN :
         IF ok
         THEN /\ dfs' = Extend(dfs, parse_distribution_page(chain[nextPage]))
              /\ nextPage' = Cursor(chain, nextPage)
              /\ pc' = "dist_loop"
              /\ UNCHANGED fails
         ELSE /\ pc' = "dist_raise"
              /\ fails' = fails + 1
              /\ UNCHANGED <<dfs, nextPage>>
    /\ UNCHANGED <<cacheVars, calls, ret, prev, table, exportVars, chain, attempt, script>>

DistFinish ==
    /\ pc = "dist_loop"
    /\ nextPage = 0
    /\ pc' = "idle"
    /\ ret' = Return("get_distribution", "", dfs)
    /\ UNCHANGED <<cacheVars, calls, log, prev, table, exportVars, pageVars>>

DistRaise ==
    /\ pc = "dist_raise"
    /\ pc' = "idle"
    /\ ret' = Raise("get_distribution", "", "KeyError")
    /\ UNCHANGED <<cacheVars, calls, log, prev, table, exportVars, pageVars>>

(***************************************************************************)
(* _get_dist_links(dist_id, surv_name): the links of a distribution.       *)
(*                                                                         *)
(* LinksStart      lines 342-351: the first page                           *)
(* LinksTry        lines 353-359: the fetch in the try block               *)
(* LinksExcept     lines 363-368: the fetch in the except block            *)
(* LinksExhausted  lines 374-376: the else of the for loop                 *)
(* LinksFinish     lines 378-382                                           *)
(*                                                                         *)
(* The while condition is tested only when a round of the for loop starts  *)
(* (attempt = 0): a round goes on to its next turn after the except block  *)
(* has run, whatever the cursor then is, and requests.get(None) raises     *)
(* MissingSchema.  A KeyError in the except block leaves the call.         *)
(***************************************************************************)
LinksStart(pages, surv_name, faults) ==
    /\ StartPages("get_dist_links", surv_name)
    /\ chain' = pages
    /\ script' = faults
    /\ LET suid == get_survey_id(surveys, surv_name)
           resp == Response(faults, <<>>, 1)
       IN IF suid.kind = "raise"
          THEN /\ log' = <<Req("GET", "surveys", 0)>>
               /\ nextPage' = 0
               /\ dfs' = <<>>
               /\ fails' = 0
               /\ pc' = "links_novalue"
          ELSE /\ log' = <<Req("GET", "surveys", 0), Req("GET", "links", 1)>>
               /\ IF resp = "ok"
                  THEN /\ nextPage' = Cursor(pages, 1)
                       /\ dfs' = <<pages[1]>>
                       /\ fails' = 0
                       /\ pc' = "links_loop"
                  ELSE /\ nextPage' = 0
                       /\ dfs' = <<>>
                       /\ fails' = 1
                       /\ pc' = "links_raise"

\* the page was appended unless the elements were missing
Appended(resp) == resp # "noElements"

LinksTry ==
    /\ pc = "links_loop"
    /\ attempt < MaxAttempts
    /\ attempt > 0 \/ nextPage # 0
    /\ log' = Append(log, Req("GET", "links", nextPage))
    /\ IF nextPage = 0
       THEN /\ pc' = "links_badurl"
            /\ UNCHANGED <<dfs, nextPage, attempt, fails>>
       ELSE LET resp == Response(script, log, nextPage)
            IN /\ dfs' = IF Appended(resp) THEN Append(dfs, chain[nextPage]) ELSE dfs
               /\ IF resp = "ok"
                  THEN /\ nextPage' = Cursor(chain, nextPage)
                       /\ attempt' = 0
                       /\ pc' = "links_loop"
                       /\ UNCHANGED fails
                  ELSE /\ pc' = "links_except"
                       /\ fails' = fails + 1
                       /\ UNCHANGED <<nextPage, attempt>>
    /\ UNCHANGED <<cacheVars, calls, ret, prev, table, exportVars, chain, script>>

LinksExcept ==
    /\ pc = "links_except"
    /\ log' = Append(log, Req("GET", "links", nextPage))
    /\ LET resp == Response(script, log, nextPage)
       IN /\ dfs' = IF Appended(resp) THEN Append(dfs, chain[nextPage]) ELSE dfs
          /\ IF resp = "ok"
             THEN /\ nextPage' = Cursor(chain, nextPage)
                  /\ attempt' = attempt + 1
                  /\ pc' = "links_loop"
                  /\ UNCHANGED fails
             ELSE /\ pc' = "links_raise"
                  /\ fails' = fails + 1
                  /\ UNCHANGED <<nextPage, attempt>>
    /\ UNCHANGED <<cacheVars, calls, ret, prev, table, exportVars, chain, script>>

LinksExhausted ==
    /\ pc = "links_loop"
    /\ attempt = MaxAttempts
    /\ pc' = "idle"
    /\ ret' = Raise("get_dist_links", ret.arg,
                    "KeyError: Tried 10 attempts with a failure.")
    /\ UNCHANGED <<cacheVars, calls, log, prev, table, exportVars, pageVars>>

LinksFinish ==
    /\ pc = "links_loop"
    /\ attempt = 0
    /\ nextPage = 0
    /\ pc' = "idle"
    /\ ret' = Return("get_dist_links", ret.arg, ConcatLinks(dfs))
    /\ UNCHANGED <<cacheVars, calls, log, prev, table, exportVars, pageVars>>

\* an exception that leaves the call
LinksRaise ==
    /\ pc \in {"links_raise", "links_badurl", "links_novalue"}
    /\ pc' = "idle"
    /\ ret' = Raise("get_dist_links", ret.arg,
                    CASE pc = "links_raise" -> "KeyError"
                      [] pc = "links_badurl" -> "MissingSchema"
                      [] pc = "links_novalue" -> "ValueError: survey does not exist")
    /\ UNCHANGED <<cacheVars, calls, log, prev, table, exportVars, pageVars>>

(***************************************************************************)
(* _get_distribution_ids(surv_name): one listing of the surveys, then one  *)
(* listing of the survey's distributions, of which only the first page is  *)
(* read.  The listing is kept as a chain of that one page.                 *)
(***************************************************************************)
get_distribution_ids ==
    /\ pc = "idle"
    /\ calls = 0
    /\ \E results \in DistListings, surv_name \in SurveyNames :
         /\ calls' = calls + 1
         /\ table' = NoTable
         /\ chain' = <<results>>
         /\ LET suid == get_survey_id(surveys, surv_name)
            IN IF suid.kind = "raise"
               THEN /\ log' = <<Req("GET", "surveys", 0)>>
                    /\ ret' = Finish("get_distribution_ids", surv_name, suid)
               ELSE /\ log' = <<Req("GET", "surveys", 0),
                                Req("GET", "distributions", suid.val)>>
                    /\ ret' = Return("get_distribution_ids", surv_name,
                                     Dists(results, EmptyDict))
    /\ UNCHANGED <<cacheVars, pc, prev, exportVars, nextPage, dfs, attempt, script, fails>>

\* a call of _get_distribution on some chain of contact pages
get_distribution ==
    /\ pc = "idle"
    /\ calls = 0
    /\ \E pages \in ContactChains : DistStart(pages)

\* a call of _get_dist_links on some chain of link pages
get_dist_links ==
    /\ pc = "idle"
    /\ calls = 0
    /\ \E pages \in LinkChains, surv_name \in SurveyNames :
          \E faults \in Scripts(pages) : LinksStart(pages, surv_name, faults)

NextPages ==
    \/ get_distribution_ids
    \/ get_distribution
    \/ DistNext
    \/ DistFinish
    \/ DistRaise
    \/ get_dist_links
    \/ LinksTry
    \/ LinksExcept
    \/ LinksExhausted
    \/ LinksFinish
    \/ LinksRaise

SpecPages == InitPages /\ [][NextPages]_vars

(***************************************************************************)
(* The whole client: construction, then one call of any operation.  The   *)
(* account's mailing lists may change between the two: another user adds   *)
(* a list or deletes the newest one.                                       *)
(***************************************************************************)
ExternalRemove ==
    /\ pc \in {"new", "idle"}
    /\ server # <<>>
    /\ server' = SubSeq(server, 1, Len(server) - 1)
    /\ UNCHANGED <<mls_set, mls, pc, calls, log, ret, prev, table, exportVars, pageVars>>

\* no call has been made since the construction
FirstCall == ret.op \in {"none", "__post_init__"}

\* the last call was the construction
AfterConstruction == ret.op = "__post_init__"

InitClient ==
    \/ /\ InitCache
       /\ InitCommon
       /\ pc = "new"
       /\ InitExportVars
       /\ InitPageVars
    \/ InitPages

NextClient ==
    \/ PostInit
    \/ AfterConstruction /\ \E name \in Names : ExternalAdd(name)
    \/ AfterConstruction /\ ExternalRemove
    \/ FirstCall /\ \E name \in Names : create_mailing_list(name)
    \/ FirstCall /\ \E name \in Names : GetMailingListId(name)
    \/ FirstCall /\ \E name \in Names, df \in Tables : import_contacts(name, df)
    \/ FirstCall /\ \E surv_name \in SurveyNames : ExportStart(surv_name)
    \/ ExportCheck
    \/ ExportFinish
    \/ NextPages

SpecClient == InitClient /\ [][NextClient]_vars

(***************************************************************************)
(* Helpers of the properties.                                              *)
(***************************************************************************)
TwoSameName(srv) == \E i, j \in 1..Len(srv) : i # j /\ srv[i].name = srv[j].name

IdOnAccount(srv, name) == (CHOOSE i \in 1..Len(srv) : srv[i].name = name)

BatchSizeExceeded == "AssertionError: maximum contacts to import at once is 10000"
DuplicateEmail == "AssertionError"
DuplicateName == "ValueError: duplicate names"

\* a step in which a call of op is made from start to end
CallOf(op) == calls' = calls + 1 /\ ret'.op = op

(***************************************************************************)
(* C1: create_mailing_list(name) is idempotent.  When name resolves in the *)
(* cache the call returns the cached id and issues no request; when it     *)
(* does not, the call issues exactly one creation POST, then one listing   *)
(* GET, and what it returns is the id name resolves to in the reloaded     *)
(* cache (it returns whenever the reloaded listing has no duplicate names  *)
(* and holds name).  Two consecutive calls for one name that return,       *)
(* return the same id, and the two issue at most one creation POST.        *)
(***************************************************************************)
C1_Step ==
    CallOf("create_mailing_list") =>
        LET name == ret'.arg
        IN IF name \in DOMAIN mls
           THEN /\ ret'.kind = "return" /\ ret'.val = mls[name].id
                /\ log' = <<>>
                /\ server' = server /\ mls' = mls
           ELSE /\ log' = <<Req("POST", "mailinglists", 0), Req("GET", "mailinglists", 0)>>
                /\ ret'.kind = "return" =>
                       /\ name \in DOMAIN mls'
                       /\ ret'.val = mls'[name].id
                /\ (~TwoSameName(server') /\ name \in ListingNames(server')) =>
                       /\ ret'.kind = "return"
                       /\ ret'.val = server'[IdOnAccount(server', name)].id

C1_TwoCalls ==
    ( /\ prev.ret.op = "create_mailing_list" /\ ret.op = "create_mailing_list"
      /\ prev.ret.arg = ret.arg
      /\ prev.ret.kind = "return" )
    => /\ ret.kind = "return"
       /\ ret.val = prev.ret.val
       /\ Count(prev.log, "POST", "mailinglists") + Count(log, "POST", "mailinglists") <= 1

\* C1: every create_mailing_list step is as C1_Step says, and two
\* consecutive calls are as C1_TwoCalls says
C1_CreateIdempotent == [][C1_Step]_vars /\ []C1_TwoCalls

\* a created list is found again by the next call without a second POST
C1_Witness ==
    /\ prev.ret.op = "create_mailing_list" /\ ret.op = "create_mailing_list"
    /\ prev.ret.arg = ret.arg
    /\ prev.ret.kind = "return" /\ ret.kind = "return"
    /\ Count(prev.log, "POST", "mailinglists") = 1
    /\ log = <<>>

(***************************************************************************)
(* C2: a listing with two entries of one name makes the cache load fail    *)
(* with the duplicate-name ValueError and leaves the cache as it was: not  *)
(* set at construction, unchanged on the reload of create_mailing_list.    *)
(***************************************************************************)
C2_Step ==
    ( /\ calls' = calls + 1
      /\ Count(log', "GET", "mailinglists") > 0
      /\ TwoSameName(server') )
    => /\ ret'.kind = "raise" /\ ret'.err = DuplicateName
       /\ mls' = mls /\ mls_set' = mls_set
       /\ ret'.op = "__post_init__" => ~mls_set' /\ pc' = "new"

\* C2: every cache load that meets a duplicate name is as C2_Step says
C2_DuplicateNamesFail == [][C2_Step]_vars

\* the reload inside create_mailing_list met a duplicate name
C2_Witness ==
    /\ ret.op = "create_mailing_list"
    /\ ret.kind = "raise" /\ ret.err = DuplicateName
    /\ log = <<Req("POST", "mailinglists", 0), Req("GET", "mailinglists", 0)>>
    /\ mls_set /\ TwoSameName(server) /\ ~(ret.arg \in DOMAIN mls)

(***************************************************************************)
(* C9: import_contacts for a mailing list that resolves, given a table in  *)
(* which two rows have the same email, fails with an AssertionError before *)
(* any request is issued; for a table within the batch limit the error is  *)
(* the bare assertion of the email uniqueness check.                       *)
(***************************************************************************)
HasRepeatedEmail(df) == \E i, j \in 1..Len(df.head) : i # j /\ df.head[i] = df.head[j]

C9_DuplicateEmailFails ==
    ( /\ ret.op = "import_contacts"
      /\ ret.arg \in DOMAIN mls
      /\ HasRepeatedEmail(table) )
    => /\ ret.kind = "raise"
       /\ ret.err \in {DuplicateEmail, BatchSizeExceeded}
       /\ DfLen(table) <= MaxContacts => ret.err = DuplicateEmail
       /\ log = <<>>

C9_Witness ==
    /\ ret.op = "import_contacts"
    /\ ret.arg \in DOMAIN mls
    /\ HasRepeatedEmail(table)
    /\ DfLen(table) <= MaxContacts
    /\ ret.err = DuplicateEmail /\ log = <<>>

(***************************************************************************)
(* C10: every contactimports POST carries at most 10000 contacts.  A table *)
(* of more than 10000 rows sends nothing and, for a list that resolves,    *)
(* fails with the batch-size assertion; a table of exactly 10000 rows with *)
(* distinct emails is sent whole in a single POST.                         *)
(***************************************************************************)
C10_BatchLimit ==
    /\ \A i \in 1..Len(log) : log[i].ep = "contactimports" => log[i].n <= MaxContacts
    /\ ret.op = "import_contacts" =>
         /\ DfLen(table) > MaxContacts =>
                /\ ret.kind = "raise" /\ log = <<>>
                /\ ret.arg \in DOMAIN mls => ret.err = BatchSizeExceeded
         /\ ( /\ DfLen(table) = MaxContacts
              /\ ~HasRepeatedEmail(table)
              /\ ret.arg \in DOMAIN mls )
            => /\ ret.kind = "return"
               /\ log = <<Req("POST", "contactimports", MaxContacts)>>

C10_Witness ==
    /\ ret.op = "import_contacts" /\ ret.kind = "return"
    /\ DfLen(table) = MaxContacts
    /\ log = <<Req("POST", "contactimports", MaxContacts)>>

(***************************************************************************)
(* Helpers of the export properties.                                       *)
(***************************************************************************)
IsJobReq(r) == r.ep \in {"export-responses", "file"}

\* the requests of the call that concern the export job, in order
JobReqs == SelectSeq(log, IsJobReq)

StatusChecks(k) == [i \in 1..k |-> Req("GET", "export-responses", prog_id)]

\* an export call has ended after creating its job
ExportEnded ==
    pc = "idle" /\ ret.op = "get_surv_data" /\ ret.kind # "running" /\ Len(resps) > 0

Pending(r) == r.status = "inProgress" /\ r.fileId = 0

\* the job was created in progress and its k-th status response is the
\* first that is not pending: it reports complete and carries the file id
CompleteAt(k) ==
    /\ Len(resps) >= k + 1
    /\ \A i \in 1..k : Pending(resps[i])
    /\ resps[k + 1].status = "complete"
    /\ resps[k + 1].fileId # 0

(***************************************************************************)
(* C3: when the export job is created in progress and its k-th status      *)
(* response is the first to report complete (with the file id of the       *)
(* finished export), the poller has issued one export creation, then       *)
(* exactly k status checks, then one file download, in that order, and     *)
(* returns the downloaded table; it never ends while the last response is  *)
(* still pending.                                                          *)
(***************************************************************************)
C3_PollsUntilComplete ==
    ExportEnded =>
        /\ ~Pending(resps[Len(resps)])
        /\ \A k \in 1..MaxPolls :
             CompleteAt(k) =>
                /\ JobReqs = <<Req("POST", "export-responses", log[2].n)>>
                               \o StatusChecks(k)
                               \o <<Req("GET", "file", resps[k + 1].fileId)>>
                /\ ret.kind = "return"
                /\ ret.val = ReadExport(ExportFile(resps[k + 1].fileId))

\* complete at the last status check the bound allows
C3_Witness ==
    /\ ExportEnded
    /\ CompleteAt(MaxPolls)
    /\ ret.kind = "return"
    /\ Count(log, "GET", "export-responses") = MaxPolls

(***************************************************************************)
(* C4: when a response of the export job reports failed (the creation      *)
(* response or a status response, with or without a file id), the poller   *)
(* raises the export-failed error; it issues no download, no status check  *)
(* after that response and no second export creation.                      *)
(***************************************************************************)
C4_FailedRaises ==
    ( /\ ret.op = "get_surv_data"
      /\ \E i \in 1..Len(resps) : resps[i].status = "failed" )
    => /\ resps[Len(resps)].status = "failed"
       /\ \A i \in 1..(Len(resps) - 1) : resps[i].status # "failed"
       /\ Count(log, "GET", "export-responses") = Len(resps) - 1
       /\ Count(log, "GET", "file") = 0
       /\ Count(log, "POST", "export-responses") = 1
       /\ pc = "idle" =>
            /\ ret.kind = "raise" /\ ret.err = "Exception: export failed"

\* a status response reports failed and carries a file id
C4_Witness ==
    /\ ExportEnded
    /\ Len(resps) > 2
    /\ resps[Len(resps)].status = "failed"
    /\ resps[Len(resps)].fileId # 0
    /\ ret.err = "Exception: export failed"

(***************************************************************************)
(* C8: a status response that carries a file id or reports complete is the *)
(* last one the poller asks for; when it carries a file id while the       *)
(* status is still inProgress, the download is requested with that file    *)
(* id.                                                                     *)
(***************************************************************************)
C8_StopsOnFileId ==
    ret.op = "get_surv_data" =>
        \A i \in 2..Len(resps) :
            (resps[i].fileId # 0 \/ resps[i].status = "complete") =>
                /\ i = Len(resps)
                /\ Count(log, "GET", "export-responses") = i - 1
                /\ (pc = "idle" /\ resps[i].fileId # 0 /\ resps[i].status = "inProgress") =>
                      /\ log[Len(log)] = Req("GET", "file", resps[i].fileId)
                      /\ Count(log, "GET", "file") = 1
                      /\ ret.kind = "return"

\* the file id arrived while the job was still reported in progress
C8_Witness ==
    /\ ExportEnded
    /\ Len(resps) > 2
    /\ resps[Len(resps)].status = "inProgress"
    /\ resps[Len(resps)].fileId # 0
    /\ log[Len(log)] = Req("GET", "file", resps[Len(resps)].fileId)

(***************************************************************************)
(* Helpers of the paginator properties.                                    *)
(***************************************************************************)
PagesEnded(op) == pc = "idle" /\ ret.op = op /\ ret.kind # "running"

\* the call got past _get_survey_id and asked for the first page
LinksAsked == Len(log) > 1

PageFetches(ep, n) == [j \in 1..n |-> Req("GET", ep, j)]

ExhaustedRetries == "KeyError: Tried 10 attempts with a failure."

(***************************************************************************)
(* C5: on a chain of n pages linked by nextPage cursors, the last cursor   *)
(* being null, and with every response complete, _get_distribution and     *)
(* _get_dist_links fetch page 1, 2, ..., n once each and nothing after,    *)
(* and return the pages' elements (for contacts: their rows) concatenated  *)
(* in arrival order.                                                       *)
(***************************************************************************)
C5_PaginatorsConcatenate ==
    /\ (PagesEnded("get_distribution") /\ fails = 0) =>
          /\ ret.kind = "return"
          /\ log = PageFetches("contacts", Len(chain))
          /\ ret.val = Flatten([j \in 1..Len(chain) |-> parse_distribution_page(chain[j])])
    /\ (PagesEnded("get_dist_links") /\ LinksAsked /\ fails = 0) =>
          /\ ret.kind = "return"
          /\ Tail(log) = PageFetches("links", Len(chain))
          /\ ret.val = [i \in 1..Len(Flatten(chain)) |-> LinkRow(Flatten(chain)[i])]

\* three pages of contacts, none empty, fetched without an error
C5_Witness ==
    /\ PagesEnded("get_distribution")
    /\ fails = 0
    /\ Len(chain) = 3
    /\ \A j \in 1..3 : chain[j] # <<>>
    /\ ret.kind = "return"
    /\ Len(ret.val) >= 3

(***************************************************************************)
(* C6: in _get_dist_links, when the fetches of a next page lack a field m  *)
(* times in a row, 1 <= m <= 9, and the fetch after them is answered in    *)
(* full, the call returns.                                                 *)
(***************************************************************************)
C6_RetriesThenReturns ==
    ( /\ PagesEnded("get_dist_links") /\ LinksAsked
      /\ script.first >= 2
      /\ script.fails >= 1 /\ script.fails <= MaxAttempts - 1 )
    => ret.kind = "return"

(***************************************************************************)
(* C7: in _get_dist_links, when the fetches of a next page lack a field 10 *)
(* times in a row, the call raises 'Tried 10 attempts with a failure.'     *)
(* and no other error, after exactly 10 fetches of that page.              *)
(***************************************************************************)
C7_ExhaustedAfterTen ==
    ( /\ PagesEnded("get_dist_links") /\ LinksAsked
      /\ script.first >= 2
      /\ script.fails = MaxAttempts )
    => /\ ret.kind = "raise"
       /\ ret.err = ExhaustedRetries
       /\ Fetches(log, script.first) = MaxAttempts

(***************************************************************************)
(* Helpers of the not-found and frame properties.                          *)
(***************************************************************************)
NoSurvey(listing, suname) == \A i \in 1..Len(listing) : listing[i].name # suname

NotFoundList == "KeyError"
NotFoundSurvey == "ValueError: survey does not exist"

(***************************************************************************)
(* C11: a name that does not resolve is reported at once and not retried.  *)
(* get_mailing_list_id and import_contacts, given a name that is not in    *)
(* the cache, raise KeyError having issued no request, and leave the cache *)
(* and the account as they were; _get_surv_data, given a name no survey of *)
(* the listing has, raises ValueError after exactly one listing of the     *)
(* surveys, creates no export job and does not enter its status loop.      *)
(***************************************************************************)
C11_Step ==
    /\ ( /\ CallOf("get_mailing_list_id") \/ CallOf("import_contacts")
         /\ ret'.arg \notin DOMAIN mls )
       => /\ ret'.kind = "raise" /\ ret'.err = NotFoundList
          /\ log' = <<>>
          /\ mls' = mls /\ mls_set' = mls_set /\ server' = server
          /\ pc' = "idle"
    /\ ( /\ CallOf("get_surv_data")
         /\ NoSurvey(surveys, ret'.arg) )
       => /\ ret'.kind = "raise" /\ ret'.err = NotFoundSurvey
          /\ log' = <<Req("GET", "surveys", 0)>>
          /\ resps' = <<>>
          /\ mls' = mls /\ mls_set' = mls_set /\ server' = server
          /\ pc' = "idle"

\* C11: every call with a name that does not resolve is as C11_Step says
C11_NotFoundImmediate == [][C11_Step]_vars

\* the listing has a survey, but not of the name asked for
C11_Witness ==
    /\ ret.op = "get_surv_data"
    /\ surveys # <<>> /\ NoSurvey(surveys, ret.arg)
    /\ ret.kind = "raise" /\ ret.err = NotFoundSurvey
    /\ log = <<Req("GET", "surveys", 0)>>
    /\ pc = "idle"

(***************************************************************************)
(* Helpers of the termination property.                                    *)
(***************************************************************************)
Polling == pc = "export_loop"

\* the status checks the call has issued
Polls == Count(log, "GET", "export-responses")

\* every response so far reports inProgress and carries no file id
AllPending == \A i \in 1..Len(resps) : Pending(resps[i])

(***************************************************************************)
(* C12: the export poller has no timeout.  While the creation response and *)
(* every status response so far are pending, the poller cannot leave its   *)
(* loop and its only step is one more status check; after n such           *)
(* responses it does issue check n + 1 (for every n below the bound on the *)
(* checks followed), and a call that has ended has seen a response that    *)
(* was not pending.  Once a response reports complete, failed or a file    *)
(* id, the call ends.                                                      *)
(***************************************************************************)
C12_OnlyPolls ==
    /\ (Polling /\ AllPending) =>
          /\ ~ENABLED ExportFinish
          /\ Polls < MaxPolls => ENABLED ExportCheck
    /\ (Polling /\ ~AllPending) =>
          /\ ENABLED ExportFinish
          /\ ~ENABLED ExportCheck
    /\ Polling => Len(resps) = Polls + 1
    /\ ExportEnded => ~AllPending

C12_NextCheck ==
    \A n \in 0..(MaxPolls - 1) :
        (Polling /\ AllPending /\ Polls = n) ~> (Polls = n + 1)

C12_Ends == (Polling /\ ~AllPending) ~> (pc = "idle" /\ ExportEnded)

\* C12: the poller only polls while the job is pending, polls again after
\* every pending response, and ends once a response is not pending
C12_NoTimeout == []C12_OnlyPolls /\ C12_NextCheck /\ C12_Ends

\* every check the bound allows was answered pending: the call is still in
\* its loop
C12_Witness ==
    /\ Polling /\ AllPending
    /\ Polls = MaxPolls
    /\ Len(resps) = MaxPolls + 1

(***************************************************************************)
(* Helpers of the converter property.                                      *)
(***************************************************************************)
ContactKeys == {"contactid", "email", "language", "unsubscribed"}

\* the rows due to the contacts before contact i of a page
RECURSIVE RowsBefore(_, _)
RowsBefore(elements, i) ==
    IF i = 1
    THEN 0
    ELSE RowsBefore(elements, i - 1) + Len(elements[i - 1].emailHistory)

RowsOfPage(elements) == RowsBefore(elements, Len(elements) + 1)

RECURSIVE RowsOfPages(_, _)
RowsOfPages(pages, n) ==
    IF n = 0 THEN 0 ELSE RowsOfPages(pages, n - 1) + RowsOfPage(pages[n])

\* rows is what the claim says of the page elements
RowPerEntry(elements, rows) ==
    /\ Len(rows) = RowsOfPage(elements)
    /\ \A i \in 1..Len(elements) :
         \A h \in 1..Len(elements[i].emailHistory) :
            LET person == elements[i]
                entry == person.emailHistory[h]
                row == rows[RowsBefore(elements, i) + h]
            IN /\ row.contactid = person.id
               /\ row.email = person.email
               /\ row.language = person.language
               /\ row.unsubscribed = person.unsubscribed
               /\ DOMAIN row = ContactKeys \cup DOMAIN entry
               /\ \A k \in DOMAIN entry : row[k] = entry[k]

(***************************************************************************)
(* C13: _parse_distribution_page yields, for each contact of a page, one   *)
(* row per entry of the contact's email history (none for an empty         *)
(* history), in contact order and within a contact in history order; a row *)
(* has the contact's id, email, language and unsubscribed flag and the     *)
(* fields of its entry, and nothing else.  A page yields as many rows as   *)
(* its contacts have history entries, and _get_distribution returns that   *)
(* many rows for the pages it fetched.  (The history entries of the model  *)
(* have no field named as one of the four contact fields.)                 *)
(***************************************************************************)
C13_RowPerHistoryEntry ==
    ret.op = "get_distribution" =>
        /\ \A j \in 1..Len(chain) :
              RowPerEntry(chain[j], parse_distribution_page(chain[j]))
        /\ pc = "dist_loop" => Len(dfs) = RowsOfPages(chain, Len(log))
        /\ (PagesEnded("get_distribution") /\ ret.kind = "return") =>
              /\ Len(ret.val) = RowsOfPages(chain, Len(chain))
              /\ Len(chain) = 1 => RowPerEntry(chain[1], ret.val)

\* one page: a contact without history, then a contact with one entry
C13_Witness ==
    /\ PagesEnded("get_distribution") /\ ret.kind = "return"
    /\ Len(chain) = 1
    /\ Len(chain[1]) = 2
    /\ chain[1][1].emailHistory = <<>>
    /\ Len(ret.val) = 1
    /\ ret.val[1].contactid = chain[1][2].id

(***************************************************************************)
(* Helpers of the distribution-ids property.                               *)
(***************************************************************************)
\* the distribution ids a result holds
ResultIds(dists) == {dists[m].dist_id : m \in DOMAIN dists}

\* the ids of the listed distributions that are invites without a sample
InviteIds(results) ==
    {results[i].id : i \in {k \in 1..Len(results) :
                                /\ results[k].requestType = "Invite"
                                /\ results[k].recipients.sampleId = 0}}

DistributionOf(results, id) == results[CHOOSE i \in 1..Len(results) : results[i].id = id]

(***************************************************************************)
(* C14: the result of _get_distribution_ids holds the distribution ids,    *)
(* each with its send date, of exactly the listed distributions that are   *)
(* of type Invite and have no sample id: none of another type or with a    *)
(* sample id, and every Invite without a sample id.                        *)
(***************************************************************************)
C14_ExactlyInvites ==
    (ret.op = "get_distribution_ids" /\ ret.kind = "return") =>
        /\ ResultIds(ret.val) = InviteIds(chain[1])
        /\ \A m \in DOMAIN ret.val :
              /\ ret.val[m].dist_id \in InviteIds(chain[1])
              /\ ret.val[m].send_date = DistributionOf(chain[1], ret.val[m].dist_id).sendDate
              /\ DistributionOf(chain[1], ret.val[m].dist_id).recipients.mailingListId = m

(***************************************************************************)
(* Helpers of the frame property.                                          *)
(***************************************************************************)
\* cache has the names of the listing and no other, each with its id
IsMappingOf(cache, listing) ==
    /\ DOMAIN cache = {listing[i].name : i \in 1..Len(listing)}
    /\ \A i \in 1..Len(listing) : cache[listing[i].name].id = listing[i].id

CacheUnchanged == mls' = mls /\ mls_set' = mls_set

\* the construction succeeds
Constructs == CallOf("__post_init__") /\ ret'.kind = "return"

\* create_mailing_list for a name that is not in the cache
CreateMiss == CallOf("create_mailing_list") /\ ret'.arg \notin DOMAIN mls

OtherOps ==
    {"get_mailing_list_id", "import_contacts", "get_surv_data",
     "get_distribution_ids", "get_distribution", "get_dist_links"}

(***************************************************************************)
(* C15: the cache self.mls changes only in a construction and in a         *)
(* create_mailing_list for a name that is not cached.  A construction that *)
(* succeeds and a reload that succeeds leave as cache exactly the mapping  *)
(* of the listing just read: the names of the account's lists at that      *)
(* moment with their ids, whatever the cache held before.  A load that     *)
(* meets duplicate names writes nothing.  create_mailing_list for a cached *)
(* name, get_mailing_list_id, import_contacts, every step of the export    *)
(* poller and of the paginators, and the changes other users make to the   *)
(* account leave the cache as it is.                                       *)
(***************************************************************************)
C15_Step ==
    /\ ~CacheUnchanged => Constructs \/ CreateMiss
    /\ Constructs => mls_set' /\ IsMappingOf(mls', server')
    /\ CreateMiss =>
          IF TwoSameName(server')
          THEN CacheUnchanged
          ELSE mls_set' /\ IsMappingOf(mls', server')
    /\ (CallOf("create_mailing_list") /\ ret'.arg \in DOMAIN mls) => CacheUnchanged
    /\ ret'.op \in OtherOps => CacheUnchanged
    /\ calls' = calls => CacheUnchanged

\* C15: every step is as C15_Step says
C15_CacheFrame == [][C15_Step]_vars

\* a reload: the cache is the mapping of the account's lists and holds the
\* list just created
C15_Witness ==
    /\ ret.op = "create_mailing_list" /\ ret.kind = "return"
    /\ prev.ret.op = "__post_init__"
    /\ log = <<Req("POST", "mailinglists", 0), Req("GET", "mailinglists", 0)>>
    /\ mls_set /\ IsMappingOf(mls, server)
    /\ Len(server) = 1
    /\ server[1].name = ret.arg

(***************************************************************************)
(* C16: an export call that has created its job ends in exactly one of two *)
(* ways: it raises the export-failed error and downloads nothing, or it    *)
(* returns after exactly one download whose file id is the file id of a    *)
(* status response; also when the creation response reports complete and   *)
(* when a status response reports complete without a file id.              *)
(***************************************************************************)
C16_FailsOrDownloads ==
    ExportEnded =>
        \/ /\ ret.kind = "raise" /\ ret.err = "Exception: export failed"
           /\ Count(log, "GET", "file") = 0
        \/ /\ ret.kind = "return"
           /\ Count(log, "GET", "file") = 1
           /\ \E i \in 2..Len(resps) :
                 /\ resps[i].fileId # 0
                 /\ log[Len(log)] = Req("GET", "file", resps[i].fileId)

(***************************************************************************)
(* C17: whenever _get_dist_links returns, also after fetches that lacked a *)
(* field were retried, its result is the elements of every page of the     *)
(* chain exactly once and in chain order, and no fetch is ever made with a *)
(* null cursor.                                                            *)
(***************************************************************************)
NullFetch == Req("GET", "links", 0)

C17_EveryPageOnce ==
    /\ (PagesEnded("get_dist_links") /\ ret.kind = "return") =>
          ret.val = ConcatLinks(chain)
    /\ \A i \in 1..Len(log) : log[i] # NullFetch

=============================================================================
